---- MODULE Spec2Model ----
(***************************************************************************)
(* Model of maestro_all_to_allure.py: the line parser (LINE_RE, TIME_RE,   *)
(* parse_hms_ms), the step tree builder (build_step_tree), the report      *)
(* assembler (result_from_tree, StepNode.to_allure) and the driver loop of *)
(* main() that converts one log (--url) or a batch of logs (--build-id).   *)
(*                                                                         *)
(* StepNode objects live in a heap `nodes`, keyed by object identity.      *)
(* `log` holds the lines of the current log that matched LINE_RE so far,   *)
(* in order (a rejected line leaves no trace but the count linesRead);     *)
(* the identity of a node is the position in `log` of the line that        *)
(* created it.  roots, stack and children hold identities, as the Python   *)
(* lists hold references.                                                  *)
(***************************************************************************)
EXTENDS Integers, Sequences, FiniteSets, TLC

VARIABLES
  mode,       \* "url" or "build": the option main was started with
  pc,         \* position of main: start, parse, close, built, written, done
  test,       \* the test being converted: name and history discriminator
  log,        \* lines of the current log matched by LINE_RE so far
  linesRead,  \* lines read in this run, matched or not
  roots,      \* build_step_tree: roots
  nodes,      \* the StepNode objects created for the current log
  stack,      \* build_step_tree: stack
  first_ts,   \* build_step_tree: first_ts
  last_ts,    \* build_step_tree: last_ts
  call,       \* result_from_tree: anchor, now and base_epoch_ms of the last call
  result,     \* the record result_from_tree returned, <<>> before
  files,      \* the result files written to out_dir
  children,   \* main: uuids of the records written
  container,  \* the container record, <<>> before
  uuidCtr,    \* uuid.uuid4: uuids drawn so far
  raw,        \* build_step_tree: the line the loop is at, NoLine outside the loop
  pending     \* lines of the entry being read that splitlines() has yet to yield

vars == <<mode, pc, test, log, linesRead, roots, nodes, stack, first_ts,
          last_ts, call, result, files, children, container, uuidCtr, raw,
          pending>>

(* ---------------------------- bounds ----------------------------------- *)

\* log lines read in a --url run
MaxLines == 4

\* log lines read in a --build-id run, over all its logs
MaxBatchLines == 2

\* tests converted in one --build-id run
MaxTests == 2

(* ---------------------------- values ----------------------------------- *)

\* Python's None for Optional[int]; every real timestamp is >= 0
None == -1

Max2(a, b) == IF a >= b THEN a ELSE b

Digits == {"0", "1", "2", "3", "4", "5", "6", "7", "8", "9"}

DigitVal(c) ==
  CASE c = "0" -> 0 [] c = "1" -> 1 [] c = "2" -> 2 [] c = "3" -> 3
    [] c = "4" -> 4 [] c = "5" -> 5 [] c = "6" -> 6 [] c = "7" -> 7
    [] c = "8" -> 8 [] c = "9" -> 9

\* what \s matches and str.strip() removes
Whitespace == {" ", "\t", "\n"}

\* where str.splitlines() cuts, and what `.` does not match
LineBreaks == {"\n"}

\* time texts of the input lines: 00:00:01.000, 00:01:02.500 and the
\* malformed 0:00:01.000
T_1000 == <<"0","0",":","0","0",":","0","1",".","0","0","0">>
T_62500 == <<"0","0",":","0","1",":","0","2",".","5","0","0">>
T_bad == <<"0",":","0","0",":","0","1",".","0","0","0">>

TimeTexts == {T_1000, T_62500}

\* raw step names as they stand in a line (character sequences)
N_a_tab_b == <<"a"," ","\t","b">>
N_c == <<"c">>

RawNames == {N_a_tab_b, N_c}

\* a step name the logger rendered on two lines
N_a_nl_b == <<"a"," ","\n"," ","b">>

Invokers == {"TestSuiteInteractor.invoke", "MaestroCommandRunner.runCommands$lambda$0"}

States == {"RUNNING", "COMPLETED", "FAILED"}

\* the lines a log is made of: step events of both loggers, and lines that
\* LINE_RE rejects (malformed time, other logger, other trailing word).
\* RUNNING and COMPLETED lines come at both times, FAILED lines at the later
\* one: the state word of a line enters no computation on its time
EventLines ==
  { l \in [time : TimeTexts, invoker : {"TestSuiteInteractor.invoke"},
           name : RawNames, state : States] :
      l.state = "FAILED" => l.time = T_62500 }

NoiseLines ==
  { [time |-> T_bad, invoker |-> "TestSuiteInteractor.invoke", name |-> N_c, state |-> "RUNNING"],
    [time |-> T_1000, invoker |-> "Orchestra.executeCommands", name |-> N_c, state |-> "COMPLETED"],
    [time |-> T_1000, invoker |-> "MaestroCommandRunner.runCommands$lambda$0", name |-> N_c, state |-> "SKIPPED"] }

Lines == EventLines \cup NoiseLines

\* entries of the logger for a step whose name holds a line break
BrokenEntries ==
  { [time |-> T_1000, invoker |-> "TestSuiteInteractor.invoke", name |-> N_a_nl_b, state |-> "RUNNING"],
    [time |-> T_62500, invoker |-> "TestSuiteInteractor.invoke", name |-> N_a_nl_b, state |-> "COMPLETED"] }

\* what a log is a concatenation of
Entries == Lines \cup BrokenEntries

NoLine == [time |-> <<>>, invoker |-> "", name |-> <<>>, state |-> ""]

\* str.splitlines() on one entry: the entry is cut at each line break of
\* its name; the first part keeps time and logger and ends without a state
\* word, the last part starts with the rest of the name and ends with the
\* state word
RECURSIVE splitlines(_)
splitlines(e) ==
  LET brk == {i \in 1..Len(e.name) : e.name[i] \in LineBreaks}
  IN IF brk = {} THEN <<e>>
     ELSE LET k == CHOOSE i \in brk : \A j \in brk : i <= j
          IN <<[e EXCEPT !.name = SubSeq(e.name, 1, k - 1), !.state = ""]>> \o
             splitlines([NoLine EXCEPT !.name = SubSeq(e.name, k + 1, Len(e.name)),
                                       !.state = e.state])

(* ---------------------------- line parser ------------------------------ *)

\* TIME_RE: ^\d{2}:\d{2}:\d{2}\.\d{3}
TIME_RE(t) ==
  /\ Len(t) >= 12
  /\ \A i \in {1, 2, 4, 5, 7, 8, 10, 11, 12} : t[i] \in Digits
  /\ t[3] = ":" /\ t[6] = ":" /\ t[9] = "."

parse_hms_ms(t) ==
  IF ~TIME_RE(t) THEN None
  ELSE LET h == DigitVal(t[1]) * 10 + DigitVal(t[2])
           m_ == DigitVal(t[4]) * 10 + DigitVal(t[5])
           s == DigitVal(t[7]) * 10 + DigitVal(t[8])
           ms == DigitVal(t[10]) * 100 + DigitVal(t[11]) * 10 + DigitVal(t[12])
       IN ((h * 3600 + m_ * 60 + s) * 1000) + ms

\* LINE_RE on a line split in its fields: the time group is exactly
\* \d{2}:\d{2}:\d{2}\.\d{3}, the logger is one of the two accepted ones and
\* the last word is RUNNING, COMPLETED or FAILED; the name group .+? is not
\* empty and holds no line break
LINE_RE(l) ==
  /\ Len(l.time) = 12 /\ TIME_RE(l.time)
  /\ l.invoker \in Invokers
  /\ l.state \in States
  /\ l.name # <<>>
  /\ \A i \in 1..Len(l.name) : l.name[i] \notin LineBreaks

RECURSIVE lstrip(_)
lstrip(s) ==
  IF s = <<>> THEN <<>>
  ELSE IF Head(s) \in Whitespace THEN lstrip(Tail(s)) ELSE s

RECURSIVE rstrip(_)
rstrip(s) ==
  IF s = <<>> THEN <<>>
  ELSE IF s[Len(s)] \in Whitespace THEN rstrip(SubSeq(s, 1, Len(s) - 1)) ELSE s

strip(s) == rstrip(lstrip(s))

\* re.sub(r"\s+", " ", s): every run of whitespace becomes one space
RECURSIVE collapse(_)
collapse(s) ==
  IF s = <<>> THEN <<>>
  ELSE IF Head(s) \in Whitespace
       THEN <<" ">> \o collapse(lstrip(s))
       ELSE <<Head(s)>> \o collapse(Tail(s))

normalize_trim_only(raw_name) == strip(raw_name)

\* re.sub(r"\s+", " ", m.group("name").strip())
normalize(raw_name) == collapse(strip(raw_name))

(* ---------------------------- step tree builder ------------------------ *)

StepNode(name, start) ==
  [name |-> name, start |-> start, stop |-> None, status |-> "passed",
   stage |-> "finished", children |-> <<>>]

\* for i in range(len(stack) - 1, -1, -1): first i whose node has the
\* name and no stop; 0 stands for idx = None (positions are 1-based)
RECURSIVE scan(_, _, _)
scan(stk, name, i) ==
  IF i = 0 THEN 0
  ELSE IF nodes[stk[i]].name = name /\ nodes[stk[i]].stop = None THEN i
       ELSE scan(stk, name, i - 1)

\* no search: a close takes the top of the stack, whatever its name
find_open_top(stk, name) == Len(stk)

\* the search run from the bottom of the stack: the oldest open node wins
find_open_oldest(stk, name) ==
  LET hits == {i \in 1..Len(stk) : nodes[stk[i]].name = name /\ nodes[stk[i]].stop = None}
  IN IF hits = {} THEN 0 ELSE CHOOSE i \in hits : \A j \in hits : i <= j

find_open(stk, name) == scan(stk, name, Len(stk))

\* list.pop(idx)
\* the closed node left on the stack
pop_keep(stk, idx) == stk

\* the stack unwound down to the node: it goes, and all above it
pop_through(stk, idx) == SubSeq(stk, 1, idx - 1)

pop_at(stk, idx) == SubSeq(stk, 1, idx - 1) \o SubSeq(stk, idx + 1, Len(stk))

\* the latest close time kept instead of the greatest
upd_last_latest(last, ts) == IF ts # None THEN ts ELSE last

\* last_ts = ts if last_ts is None else max(last_ts, ts), under `ts is not None`
upd_last(last, ts) ==
  IF ts # None THEN (IF last = None THEN ts ELSE Max2(last, ts)) ELSE last

\* first_ts taken from every event, without the `first_ts is None` test
upd_first_every(first, ts) == IF ts # None THEN ts ELSE first

\* first_ts = ts, under `first_ts is None and ts is not None`
upd_first(first, ts) ==
  IF first = None /\ ts # None THEN ts ELSE first

close_status(state) == IF state = "COMPLETED" THEN "passed" ELSE "failed"

\* every RUNNING node appended under the last root, open or not
start_target_last_root(stk) == IF roots # <<>> THEN roots[Len(roots)] ELSE 0

\* every RUNNING node appended to roots
start_target_roots(stk) == 0

\* the list a RUNNING node is appended to: the children of stack[-1], or
\* roots (0) when the stack is empty
start_target(stk) == IF stk # <<>> THEN stk[Len(stk)] ELSE 0

\* the node of an unmatched close appended like a RUNNING node
orphan_target_nested(stk) == IF stk # <<>> THEN stk[Len(stk)] ELSE 0

\* the list the node of an unmatched COMPLETED/FAILED is appended to: roots
orphan_target(stk) == 0

\* the heap after node `id` is created and appended to the list `target`
heap_append(target, id, node) ==
  [k \in DOMAIN nodes \cup {id} |->
     IF k = id THEN node
     ELSE IF k = target THEN [nodes[k] EXCEPT !.children = Append(@, id)]
          ELSE nodes[k]]

\* every new node appended to roots, nested or not
roots_append_always(target, id) == Append(roots, id)

roots_append(target, id) == IF target = 0 THEN Append(roots, id) ELSE roots

\* a matched close that stops the node at its own start
closed_at_start(node, ts, state) ==
  [node EXCEPT !.stop = node.start, !.status = close_status(state)]

\* node.stop = ts if ts is not None else node.start; node.status = ...
closed(node, ts, state) ==
  [node EXCEPT !.stop = IF ts # None THEN ts ELSE node.start,
               !.status = close_status(state)]

\* the node made for an unmatched COMPLETED/FAILED
orphan(name, ts, state) ==
  [StepNode(name, ts) EXCEPT !.stop = ts, !.status = close_status(state)]

\* forced closure that marks the node failed and leaves it without a stop
force_closed_no_stop(node) == [node EXCEPT !.status = "failed"]

\* forced closure that sets the stop and leaves the status as created
force_closed_passed(node) == [node EXCEPT !.stop = node.start]

\* node.stop = node.start; node.status = "failed"
force_closed(node) == [node EXCEPT !.stop = node.start, !.status = "failed"]

(* ---------------------------- report assembler ------------------------- *)

\* shift with the operands of the subtraction exchanged
shift_swapped(v, base_epoch_ms, first_rel_ms) ==
  IF v = None THEN base_epoch_ms
  ELSE IF first_rel_ms = None THEN base_epoch_ms + v
       ELSE base_epoch_ms + Max2(0, first_rel_ms - v)

\* StepNode.to_allure.shift
shift(v, base_epoch_ms, first_rel_ms) ==
  IF v = None THEN base_epoch_ms
  ELSE IF first_rel_ms = None THEN base_epoch_ms + v
       ELSE base_epoch_ms + Max2(0, v - first_rel_ms)

\* StepNode.to_allure of one node; "steps" holds the identities of the
\* children, each converted by the same rule (empty: the key is absent)
to_allure(n, base_epoch_ms, first_rel_ms) ==
  [name |-> nodes[n].name,
   status |-> nodes[n].status,
   stage |-> nodes[n].stage,
   start |-> shift(nodes[n].start, base_epoch_ms, first_rel_ms),
   stop |-> shift(IF nodes[n].stop # None THEN nodes[n].stop ELSE nodes[n].start,
                  base_epoch_ms, first_rel_ms),
   steps |-> nodes[n].children]

\* a scan of the given list alone, without the descent into children
any_failed_flat(ns) == \E i \in 1..Len(ns) : nodes[ns[i]].status # "passed"

\* result_from_tree.any_failed
RECURSIVE any_failed(_)
any_failed(ns) ==
  IF ns = <<>> THEN FALSE
  ELSE IF nodes[Head(ns)].status # "passed" THEN TRUE
       ELSE IF nodes[Head(ns)].children # <<>> /\ any_failed(nodes[Head(ns)].children)
            THEN TRUE
            ELSE any_failed(Tail(ns))

\* the fallback base without the clamp of the duration at 0
base_epoch_unclamped(anchor, first_ms, last_ms, now_ms) ==
  IF anchor # None /\ first_ms # None THEN anchor - first_ms
  ELSE IF first_ms # None /\ last_ms # None THEN now_ms - (last_ms - first_ms)
       ELSE now_ms

\* base_epoch_ms of result_from_tree
base_epoch(anchor, first_ms, last_ms, now_ms) ==
  IF anchor # None /\ first_ms # None THEN anchor - first_ms
  ELSE LET or0(x) == IF x = None \/ x = 0 THEN 0 ELSE x
           duration == IF first_ms # None /\ last_ms # None
                       THEN or0(last_ms) - or0(first_ms) ELSE 0
       IN now_ms - Max2(0, duration)

\* uuid.uuid5(uuid.NAMESPACE_URL, seed): a function of the seed alone
uuid5(seed) == <<"uuid5">> \o seed

\* hist_seed of result_from_tree; a discriminator of None or "" adds nothing
hist_seed(suite_name, test_name, history_discriminator) ==
  <<suite_name, ":", test_name>> \o
    (IF history_discriminator # "" THEN <<":", history_discriminator>> ELSE <<>>)

\* a history id drawn like the record's uuid, fresh at every call
history_id_fresh(suite_name, test_name, history_discriminator) ==
  <<"uuid4", uuidCtr + 1>>

\* history_id of result_from_tree
history_id(suite_name, test_name, history_discriminator) ==
  uuid5(hist_seed(suite_name, test_name, history_discriminator))

(* ---------------------------- driver ----------------------------------- *)

Suite == "Maestro / Android"

\* tests of a build as iter_tests_for_build yields them: name and
\* device|os|os_version|session_id
BuildTests == { [name |-> "Search", disc |-> "Pixel|android|13|s1"],
                [name |-> "Search", disc |-> "Galaxy|android|12|s2"] }

\* the --url test: --test default, history_discriminator=None
UrlTest == [name |-> "Maestro Scenario", disc |-> ""]

\* bs_test_start_epoch_ms: absent, or the parsed session start time
Anchors == {None, 5000000}

\* datetime.now() in epoch ms
Nows == {9000000}

\* the lines the run may still read
Budget == IF mode = "url" THEN MaxLines ELSE MaxBatchLines

\* what `for raw in log_text.splitlines()` can yield next: the rest of the
\* entry it is in the middle of, else the first line of any entry; l is the
\* line and rest the lines of its entry that follow it
FirstLines ==
  {[l |-> Head(splitlines(e)), rest |-> Tail(splitlines(e))] : e \in Entries}

Inputs ==
  IF pending # <<>>
  THEN {[l |-> Head(pending), rest |-> Tail(pending)]}
  ELSE FirstLines

NoTest == [name |-> "", disc |-> ""]
NoCall == [anchor |-> None, now_ms |-> None, base_epoch_ms |-> None]

Init ==
  /\ mode \in {"url", "build"}
  /\ pc = "start"
  /\ test = NoTest
  /\ log = <<>>
  /\ linesRead = 0
  /\ roots = <<>>
  /\ nodes = <<>>
  /\ stack = <<>>
  /\ first_ts = None
  /\ last_ts = None
  /\ call = NoCall
  /\ result = <<>>
  /\ files = <<>>
  /\ children = <<>>
  /\ container = <<>>
  /\ uuidCtr = 0
  /\ raw = NoLine
  /\ pending = <<>>

\* the next test of the run (the only one of --url), fetch_text and the
\* entry of build_step_tree: a new log, an empty forest
Fetch ==
  /\ \/ pc = "start"
     \/ pc = "written" /\ mode = "build" /\ Len(children) < MaxTests
  /\ IF mode = "url" THEN test' = UrlTest ELSE test' \in BuildTests
  /\ pc' = "parse"
  /\ log' = <<>>
  /\ roots' = <<>>
  /\ nodes' = <<>>
  /\ stack' = <<>>
  /\ first_ts' = None
  /\ last_ts' = None
  /\ call' = NoCall
  /\ result' = <<>>
  /\ uuidCtr' = uuidCtr + 1       \* the attachment's uuid4
  /\ raw' = NoLine
  /\ UNCHANGED <<mode, linesRead, files, children, container, pending>>

\* the next line of log_text.splitlines() does not match LINE_RE: continue
SkipLine(l, rest) ==
  /\ pc = "parse" /\ linesRead + 1 + Len(rest) <= Budget
  /\ raw' = l /\ pending' = rest
  /\ ~LINE_RE(l)
  /\ linesRead' = linesRead + 1
  /\ UNCHANGED <<mode, pc, test, log, roots, nodes, stack, first_ts, last_ts,
                 call, result, files, children, container, uuidCtr>>

\* a RUNNING line
StartEvent(l, rest) ==
  /\ pc = "parse" /\ linesRead + 1 + Len(rest) <= Budget
  /\ raw' = l /\ pending' = rest
  /\ LINE_RE(l) /\ l.state = "RUNNING"
  /\ LET ts == parse_hms_ms(l.time)
         name == normalize(l.name)
         id == Len(log) + 1
         node == StepNode(name, ts)
     IN /\ first_ts' = upd_first(first_ts, ts)
        /\ nodes' = heap_append(start_target(stack), id, node)
        /\ roots' = roots_append(start_target(stack), id)
        /\ stack' = Append(stack, id)
  /\ log' = Append(log, l)
  /\ linesRead' = linesRead + 1
  /\ UNCHANGED <<mode, pc, test, last_ts, call, result, files, children, container, uuidCtr>>

\* a COMPLETED or FAILED line whose name is open on the stack
MatchedClose(l, rest) ==
  /\ pc = "parse" /\ linesRead + 1 + Len(rest) <= Budget
  /\ raw' = l /\ pending' = rest
  /\ LINE_RE(l) /\ l.state \in {"COMPLETED", "FAILED"}
  /\ LET ts == parse_hms_ms(l.time)
         name == normalize(l.name)
         idx == find_open(stack, name)
     IN /\ idx # 0
        /\ first_ts' = upd_first(first_ts, ts)
        /\ stack' = pop_at(stack, idx)
        /\ nodes' = [nodes EXCEPT ![stack[idx]] = closed(@, ts, l.state)]
        /\ last_ts' = upd_last(last_ts, ts)
  /\ log' = Append(log, l)
  /\ linesRead' = linesRead + 1
  /\ UNCHANGED <<mode, pc, test, roots, call, result, files, children, container, uuidCtr>>

\* a COMPLETED or FAILED line whose name is not open: a new root
OrphanClose(l, rest) ==
  /\ pc = "parse" /\ linesRead + 1 + Len(rest) <= Budget
  /\ raw' = l /\ pending' = rest
  /\ LINE_RE(l) /\ l.state \in {"COMPLETED", "FAILED"}
  /\ LET ts == parse_hms_ms(l.time)
         name == normalize(l.name)
         idx == find_open(stack, name)
         id == Len(log) + 1
         node == orphan(name, ts, l.state)
     IN /\ idx = 0
        /\ first_ts' = upd_first(first_ts, ts)
        /\ nodes' = heap_append(orphan_target(stack), id, node)
        /\ roots' = roots_append(orphan_target(stack), id)
        /\ last_ts' = upd_last(last_ts, ts)
  /\ log' = Append(log, l)
  /\ linesRead' = linesRead + 1
  /\ UNCHANGED <<mode, pc, test, stack, call, result, files, children, container, uuidCtr>>

\* the for loop over the lines ends
EndOfLog ==
  /\ pc = "parse" /\ pending = <<>>
  /\ pc' = "close"
  /\ raw' = NoLine
  /\ UNCHANGED <<mode, test, log, linesRead, roots, nodes, stack, first_ts,
                 last_ts, call, result, files, children, container, uuidCtr,
                 pending>>

\* one turn of `while stack:`
ForceClose ==
  /\ pc = "close" /\ stack # <<>>
  /\ LET n == stack[Len(stack)]
         node == force_closed(nodes[n])
     IN /\ stack' = SubSeq(stack, 1, Len(stack) - 1)
        /\ nodes' = [nodes EXCEPT ![n] = node]
        /\ last_ts' = upd_last(last_ts, node.stop)
  /\ UNCHANGED <<mode, pc, test, log, linesRead, roots, first_ts, call, result,
                 files, children, container, uuidCtr, raw, pending>>

\* return roots, first_ts, last_ts
ReturnTree ==
  /\ pc = "close" /\ stack = <<>>
  /\ pc' = "built"
  /\ UNCHANGED <<mode, test, log, linesRead, roots, nodes, stack, first_ts,
                 last_ts, call, result, files, children, container, uuidCtr,
                 raw, pending>>

children_newest_first(ch, test_uuid) == <<test_uuid>> \o ch

\* children.append(result["uuid"]); in --url mode the one-element list
children_append(ch, test_uuid) == Append(ch, test_uuid)

\* result_from_tree, the write of the result file and children.append
ResultFromTree(anchor, now_ms, now2_ms) ==
  /\ pc = "built"
  /\ mode = "url" => anchor = None
  /\ now2_ms >= now_ms
  /\ LET test_uuid == uuidCtr + 1
         status == IF any_failed(roots) THEN "failed" ELSE "passed"
         base_epoch_ms == base_epoch(anchor, first_ts, last_ts, now_ms)
         start_ms == IF first_ts # None THEN base_epoch_ms + first_ts ELSE now2_ms
         stop_ms == IF last_ts # None /\ first_ts # None
                    THEN base_epoch_ms + last_ts ELSE start_ms
         r == [uuid |-> test_uuid,
               historyId |-> history_id(Suite, test.name, test.disc),
               name |-> test.name,
               fullName |-> <<Suite, ": ", test.name>>,
               status |-> status,
               stage |-> "finished",
               start |-> start_ms,
               stop |-> stop_ms,
               steps |-> [n \in DOMAIN nodes |-> to_allure(n, base_epoch_ms, first_ts)],
               rootSteps |-> roots]
     IN /\ result' = <<r>>
        /\ files' = Append(files, [uuid |-> r.uuid, historyId |-> r.historyId,
                                    name |-> r.name, disc |-> test.disc,
                                    status |-> r.status, start |-> r.start])
        /\ call' = [anchor |-> anchor, now_ms |-> now_ms, base_epoch_ms |-> base_epoch_ms]
        /\ children' = children_append(children, test_uuid)
        /\ uuidCtr' = uuidCtr + 2     \* test_uuid and the result file's uuid4
  /\ pc' = "written"
  /\ UNCHANGED <<mode, test, log, linesRead, roots, nodes, stack, first_ts,
                 last_ts, container, raw, pending>>

\* the container record is written and main returns: the files stay, the
\* locals of main (the forest, the last record) are gone
WriteContainer ==
  /\ pc \in {"written", "start"}
  /\ pc = "start" => mode = "build"
  /\ container' = <<[uuid |-> uuidCtr + 1, name |-> Suite, children |-> children,
                     befores |-> <<>>, afters |-> <<>>, links |-> <<>>]>>
  /\ uuidCtr' = uuidCtr + 2
  /\ pc' = "done"
  /\ test' = NoTest
  /\ log' = <<>>
  /\ roots' = <<>>
  /\ nodes' = <<>>
  /\ stack' = <<>>
  /\ first_ts' = None
  /\ last_ts' = None
  /\ call' = NoCall
  /\ result' = <<>>
  /\ UNCHANGED <<mode, linesRead, files, children, raw, pending>>

Next ==
  \/ Fetch
  \/ \E x \in Inputs : SkipLine(x.l, x.rest)
  \/ \E x \in Inputs : StartEvent(x.l, x.rest)
  \/ \E x \in Inputs : MatchedClose(x.l, x.rest)
  \/ \E x \in Inputs : OrphanClose(x.l, x.rest)
  \/ EndOfLog
  \/ ForceClose
  \/ ReturnTree
  \/ \E anchor \in Anchors, now_ms \in Nows :
        \E now2_ms \in {now_ms, now_ms + 1} : ResultFromTree(anchor, now_ms, now2_ms)
  \/ WriteContainer

Spec == Init /\ [][Next]_vars

(* ---------------------------- properties ------------------------------- *)

\* build_step_tree has returned roots, first_ts and last_ts
Returned == pc = "built"

\* the event lines read so far
IsStart(i) == log[i].state = "RUNNING"
IsClose(i) == log[i].state \in {"COMPLETED", "FAILED"}
EvTs(i) == parse_hms_ms(log[i].time)
EvName(i) == normalize(log[i].name)

Starts == {i \in 1..Len(log) : IsStart(i)}
Closes == {i \in 1..Len(log) : IsClose(i)}

SetMax(S) == CHOOSE x \in S : \A y \in S : y <= x
SetMin(S) == CHOOSE x \in S : \A y \in S : x <= y

RECURSIVE SortedSeq(_)
SortedSeq(S) == IF S = {} THEN <<>> ELSE <<SetMin(S)>> \o SortedSeq(S \ {SetMin(S)})

Range(q) == {q[i] : i \in 1..Len(q)}

\* the nodes of the forest: those reached from a list through children
RECURSIVE Below(_, _)
Below(ns, depth) ==
  IF depth = 0 THEN {}
  ELSE UNION { {ns[i]} \cup Below(nodes[ns[i]].children, depth - 1) : i \in 1..Len(ns) }

ForestNodes == Below(roots, Cardinality(DOMAIN nodes) + 1)

\* strict bracket matching of the first k lines, names ignored: the
\* RUNNING lines not yet closed, innermost last
RECURSIVE Nest(_)
Nest(k) ==
  IF k = 0 THEN <<>>
  ELSE LET prev == Nest(k - 1)
       IN IF IsStart(k) THEN Append(prev, k)
          ELSE IF IsClose(k) /\ prev # <<>>
               THEN SubSeq(prev, 1, Len(prev) - 1)
               ELSE prev

NestTop(k) == LET open == Nest(k) IN IF open = <<>> THEN 0 ELSE open[Len(open)]

\* every close among the first k lines closes the innermost open step
RECURSIVE WellNested(_)
WellNested(k) ==
  \/ k = 0
  \/ /\ WellNested(k - 1)
     /\ IsClose(k) => (NestTop(k - 1) # 0 /\ EvName(NestTop(k - 1)) = EvName(k))

WellFormed == WellNested(Len(log)) /\ Nest(Len(log)) = <<>>

\* the close line of RUNNING line i in a well-formed log
NestCloser(i) == SetMin({j \in Closes : j > i /\ NestTop(j - 1) = i})

\* the RUNNING lines still open after the first k lines, when each close
\* takes the most recently opened open step of its name
RECURSIVE OpenAfter(_)
OpenAfter(k) ==
  IF k = 0 THEN {}
  ELSE LET prev == OpenAfter(k - 1)
           same == {i \in prev : EvName(i) = EvName(k)}
       IN IF IsStart(k) THEN prev \cup {k}
          ELSE IF IsClose(k) /\ same # {} THEN prev \ {SetMax(same)}
               ELSE prev

\* C1: after build_step_tree returns, every node of the forest, at every
\* depth, has a stop and a status of passed or failed
C1_EveryNodeClosed ==
  Returned =>
    \A n \in ForestNodes :
      nodes[n].stop # None /\ nodes[n].status \in {"passed", "failed"}

\* a returned forest of nothing but RUNNING lines, nested
C1_Witness ==
  /\ Returned
  /\ Len(log) >= 2 /\ \A i \in 1..Len(log) : IsStart(i)
  /\ \E n \in ForestNodes : nodes[n].children # <<>>

\* C2: for a well-formed log (every close closes the innermost open step,
\* nothing left open) the forest is the nesting of the RUNNING lines: roots
\* and children in line order, status passed iff the close was COMPLETED
C2_WellFormedNesting ==
  (Returned /\ WellFormed) =>
    /\ DOMAIN nodes = Starts
    /\ roots = SortedSeq({i \in Starts : NestTop(i - 1) = 0})
    /\ \A p \in Starts :
         nodes[p].children = SortedSeq({i \in Starts : NestTop(i - 1) = p})
    /\ \A i \in Starts :
         /\ nodes[i].name = EvName(i)
         /\ nodes[i].status = "passed" <=> log[NestCloser(i)].state = "COMPLETED"

\* a well-formed log with a failed step nested in a passed one
C2_Witness ==
  /\ Returned /\ WellFormed
  /\ \E p \in Starts : \E c \in Range(nodes[p].children) :
       nodes[p].status = "passed" /\ nodes[c].status = "failed"

\* C3: a COMPLETED/FAILED line whose name is not on the open-stack adds one
\* node, as the last root, with start = stop = the line's time and the
\* line's status, and changes neither the stack nor any existing node
C3_OrphanCloseAddsRoot ==
  [][ \A l \in Lines :
        ( /\ pc = "parse" /\ log' = Append(log, l)
          /\ LINE_RE(l) /\ l.state \in {"COMPLETED", "FAILED"}
          /\ ~ \E i \in 1..Len(stack) : nodes[stack[i]].name = normalize(l.name) )
        => LET id == Len(log) + 1 IN
           /\ id \notin DOMAIN nodes
           /\ DOMAIN nodes' = DOMAIN nodes \cup {id}
           /\ \A k \in DOMAIN nodes : nodes'[k] = nodes[k]
           /\ roots' = Append(roots, id)
           /\ stack' = stack
           /\ nodes'[id].name = normalize(l.name)
           /\ nodes'[id].start = parse_hms_ms(l.time)
           /\ nodes'[id].stop = parse_hms_ms(l.time)
           /\ nodes'[id].status = (IF l.state = "COMPLETED" THEN "passed" ELSE "failed")
           /\ nodes'[id].children = <<>>
    ]_vars

\* an unmatched close was read while a step was open: its node is a root
\* that follows the open step's root
C3_Witness ==
  /\ pc = "parse" /\ stack # <<>>
  /\ \E r \in Range(roots) :
       /\ IsClose(r) /\ r > stack[1]
       /\ nodes[r].start = nodes[r].stop /\ nodes[r].stop = EvTs(r)

\* C4: every RUNNING line left unmatched at the end of the log yields a
\* node with status failed and stop equal to its own start
C4_UnclosedFailed ==
  Returned =>
    \A i \in OpenAfter(Len(log)) :
      /\ i \in ForestNodes
      /\ nodes[i].status = "failed"
      /\ nodes[i].start = EvTs(i)
      /\ nodes[i].stop = nodes[i].start

\* two steps left open at different depths, after another one was closed
C4_Witness ==
  /\ Returned
  /\ Closes # {}
  /\ \E i, j \in OpenAfter(Len(log)) : j \in Range(nodes[i].children)

\* C5: the record's status is failed iff some node of the forest, at any
\* depth, is failed; otherwise, the empty forest included, it is passed
C5_OverallStatus ==
  pc = "written" =>
    /\ result[1].status \in {"passed", "failed"}
    /\ result[1].status = "failed" <=> \E n \in ForestNodes : nodes[n].status = "failed"

\* a failed record all of whose roots are passed
C5_Witness ==
  /\ pc = "written"
  /\ result[1].status = "failed"
  /\ roots # <<>> /\ \A r \in Range(roots) : nodes[r].status = "passed"

TsMax(S) == IF S = {} THEN None ELSE SetMax(S)

\* the times of the close lines read so far, and the start times of the
\* steps that the end of the log left open and forced closure has closed
CloseTs == {EvTs(i) : i \in Closes}
ForcedTs == {EvTs(i) : i \in OpenAfter(Len(log)) \ Range(stack)}

\* C6 as claimed: the returned last_timestamp is the maximum over the close
\* events alone, forced closure leaving it unchanged
C6_LastIsMaxOfCloses ==
  Returned => last_ts = TsMax(CloseTs)

\* C6 amended: last_timestamp is the maximum over the close events and over
\* the starts of the steps forced closure has closed so far
C6_LastIsMaxOfClosesAndForced ==
  /\ pc = "parse" => last_ts = TsMax(CloseTs)
  /\ pc \in {"close", "built", "written"} =>
       last_ts = TsMax(CloseTs \cup ForcedTs)

\* forced closure has raised last_timestamp above every close event
C6_Witness ==
  /\ Returned
  /\ Closes # {}
  /\ last_ts > TsMax(CloseTs)

\* C7: with an anchor and a first_timestamp, base_epoch is anchor minus
\* first_timestamp and a step that starts at first_timestamp is reported
\* at the anchor
C7_FirstStepAtAnchor ==
  (pc = "written" /\ call.anchor # None /\ first_ts # None) =>
    /\ call.base_epoch_ms = call.anchor - first_ts
    /\ \A n \in ForestNodes :
         nodes[n].start = first_ts => result[1].steps[n].start = call.anchor

\* the times shift is tried on, besides those of the nodes
ShiftArgs == {parse_hms_ms(t) : t \in TimeTexts} \cup {0, 999, 100000}

NodeTimes == UNION {{nodes[n].start, nodes[n].stop} : n \in ForestNodes}

\* C8: for the base_epoch and first_timestamp of a call (and for an absent
\* first_timestamp), t1 <= t2 implies shift(t1) <= shift(t2), for the times
\* of the nodes as reported in steps too
C8_ShiftMonotonic ==
  pc = "written" =>
    /\ \A f \in {first_ts, None} : \A t1, t2 \in ShiftArgs \cup NodeTimes :
         t1 <= t2 => shift(t1, call.base_epoch_ms, f) <= shift(t2, call.base_epoch_ms, f)
    /\ \A n, m \in ForestNodes :
         /\ nodes[n].start <= nodes[m].start =>
              result[1].steps[n].start <= result[1].steps[m].start
         /\ nodes[n].stop <= nodes[m].stop =>
              result[1].steps[n].stop <= result[1].steps[m].stop

\* a record with a step that starts before first_timestamp, reported at
\* base_epoch by the clamp, and a step that starts later
C8_Witness ==
  /\ pc = "written"
  /\ \E n, m \in ForestNodes :
       /\ nodes[n].start < first_ts
       /\ nodes[n].start < nodes[m].start
       /\ result[1].steps[n].start = call.base_epoch_ms
       /\ result[1].steps[n].start <= result[1].steps[m].start

\* C9: two records of a run with the same suite, test name and
\* discriminator have the same historyId
C9_HistoryIdDeterministic ==
  \A i, j \in 1..Len(files) :
    (files[i].name = files[j].name /\ files[i].disc = files[j].disc)
      => files[i].historyId = files[j].historyId

\* two records of the same test that differ in uuid, status and start
C9_Witness ==
  /\ Len(files) = 2
  /\ files[1].name = files[2].name /\ files[1].disc = files[2].disc
  /\ files[1].uuid # files[2].uuid
  /\ files[1].status # files[2].status
  /\ files[1].start # files[2].start

Events == Starts \cup Closes

\* C10: first_timestamp is the time of the first event line read so far,
\* whatever its kind, and absent iff no event line was read
C10_FirstIsFirstEvent ==
  first_ts = (IF log = <<>> THEN None ELSE EvTs(1))

\* a log with a rejected line whose first event is an unmatched close and
\* in which a later event carries another time
C10_Witness ==
  /\ Returned
  /\ linesRead > Len(log)
  /\ log # <<>> /\ IsClose(1)
  /\ \E i \in Events : EvTs(i) # first_ts

\* C11: when a batch conversion has written its container, the container's
\* children are the uuids of the result files written, one per file, in the
\* order the files were written, no uuid twice; befores, afters and links
\* are empty.
C11_ContainerListsRecords ==
  (mode = "build" /\ pc = "done") =>
    /\ Len(container) = 1
    /\ Len(container[1].children) = Len(files)
    /\ \A i \in 1..Len(files) : container[1].children[i] = files[i].uuid
    /\ \A i, j \in 1..Len(files) : i # j => files[i].uuid # files[j].uuid
    /\ container[1].befores = <<>>
    /\ container[1].afters = <<>>
    /\ container[1].links = <<>>

C11_Witness ==
  /\ mode = "build" /\ pc = "done"
  /\ Len(files) = 2
  /\ files[1].disc # files[2].disc
  /\ container[1].children = <<files[1].uuid, files[2].uuid>>

\* the words of a text: its maximal runs of characters that are not
\* whitespace
RECURSIVE Words(_)
Words(s) ==
  IF s = <<>> THEN <<>>
  ELSE IF Head(s) \in Whitespace THEN Words(Tail(s))
  ELSE LET ends == {i \in 1..Len(s) : i = Len(s) \/ s[i + 1] \in Whitespace}
           k == CHOOSE i \in ends : \A j \in ends : i <= j
       IN <<SubSeq(s, 1, k)>> \o Words(SubSeq(s, k + 1, Len(s)))

RECURSIVE JoinWords(_)
JoinWords(ws) ==
  IF ws = <<>> THEN <<>>
  ELSE IF Len(ws) = 1 THEN ws[1]
  ELSE ws[1] \o <<" ">> \o JoinWords(Tail(ws))

\* a name with every whitespace run turned into one space, none outside
Squeezed(s) == JoinWords(Words(s))

\* the entries the logger writes for step events
StepEntries == EventLines \cup BrokenEntries

\* the squeezed name of every raw name of the input
SqueezedName == [s \in RawNames \cup {N_a_nl_b} |-> Squeezed(s)]

LastLine(e) == splitlines(e)[Len(splitlines(e))]

BrokenParts == UNION {Range(splitlines(e)) : e \in BrokenEntries}

\* C12 as stated: once the loop has read the whole entry of a step event,
\* whatever whitespace its name holds (line breaks included), the entry has
\* been recognised as the latest event, and the node it started or closed
\* carries the name with every whitespace run collapsed and the ends trimmed.
C12_AnyWhitespaceIsOneEvent ==
  \A e \in StepEntries :
    (pc = "parse" /\ pending = <<>> /\ raw = LastLine(e)) =>
      /\ log # <<>>
      /\ log[Len(log)].state = e.state
      /\ log[Len(log)].time = e.time
      /\ \E n \in DOMAIN nodes :
            /\ nodes[n].name = SqueezedName[e.name]
            /\ IF e.state = "RUNNING"
               THEN n = Len(log) /\ nodes[n].start = parse_hms_ms(e.time)
               ELSE nodes[n].stop = parse_hms_ms(e.time)

\* C12, amended: a step event written on one line is recognised as one
\* event, and every node carries the name of its line with each run of
\* spaces and tabs collapsed to one space and the ends trimmed; an entry
\* whose name holds a line break is cut in lines of which none is
\* recognised, so it yields no event and no node.
C12_WhitespaceWithinALine ==
  pc = "parse" =>
    /\ \A n \in DOMAIN nodes : nodes[n].name = SqueezedName[log[n].name]
    /\ raw \in EventLines => (log # <<>> /\ log[Len(log)] = raw)
    /\ \A i \in 1..Len(log) : log[i] \notin BrokenParts
    /\ raw \in BrokenParts => linesRead > Len(log)

C12_Witness ==
  /\ pc = "parse" /\ pending = <<>>
  /\ \E e \in BrokenEntries : e.state = "RUNNING" /\ raw = LastLine(e)
  /\ linesRead = 3 /\ Len(log) = 1
  /\ log[1].name = N_a_tab_b
  /\ nodes[1].name = <<"a", " ", "b">>

\* the positions of the stack whose node has the name
OpenNamed(name) == {i \in 1..Len(stack) : nodes[stack[i]].name = name}

\* C13: a COMPLETED or FAILED line whose name is open on the stack closes
\* the topmost node of that name: that node leaves the stack and gets stop
\* and status; every other node of the stack stays, in the same order, and
\* no other node changes.
C13_CloseTakesNearestOnly ==
  [][ (pc = "parse" /\ Len(log') = Len(log) + 1) =>
        LET l == log'[Len(log')]
            hits == OpenNamed(Squeezed(l.name))
        IN (l.state \in {"COMPLETED", "FAILED"} /\ hits # {}) =>
             LET k == SetMax(hits)
             IN /\ stack' = [i \in 1..(Len(stack) - 1) |->
                               IF i < k THEN stack[i] ELSE stack[i + 1]]
                /\ nodes'[stack[k]].stop = parse_hms_ms(l.time)
                /\ nodes'[stack[k]].status =
                     (IF l.state = "COMPLETED" THEN "passed" ELSE "failed")
                /\ DOMAIN nodes' = DOMAIN nodes
                /\ \A n \in DOMAIN nodes \ {stack[k]} : nodes'[n] = nodes[n]
                /\ roots' = roots
    ]_vars

\* the same name open twice and another step opened after them: the close
\* has taken the later of the two from the middle of the stack
C13_Witness ==
  /\ pc = "parse" /\ Len(log) = 4
  /\ IsStart(1) /\ IsStart(2) /\ IsStart(3) /\ IsClose(4)
  /\ EvName(1) = EvName(2) /\ EvName(3) # EvName(1) /\ EvName(4) = EvName(1)
  /\ stack = <<1, 3>>
  /\ nodes[2].stop # None /\ nodes[1].stop = None /\ nodes[3].stop = None

\* C14: a RUNNING line creates one node that did not exist, open and
\* without children, named and timed by the line; the node becomes the
\* last child of the node on top of the stack, or the last root when the
\* stack is empty, and the new top of the stack; no node that existed
\* changes otherwise, whatever names are open.
C14_StartCreatesNode ==
  [][ (pc = "parse" /\ Len(log') = Len(log) + 1
         /\ log'[Len(log')].state = "RUNNING") =>
        LET l == log'[Len(log')]
            id == Len(log')
            top == IF stack = <<>> THEN 0 ELSE stack[Len(stack)]
        IN /\ id \notin DOMAIN nodes
           /\ DOMAIN nodes' = DOMAIN nodes \cup {id}
           /\ nodes'[id].name = Squeezed(l.name)
           /\ nodes'[id].start = parse_hms_ms(l.time)
           /\ nodes'[id].stop = None
           /\ nodes'[id].children = <<>>
           /\ stack' = Append(stack, id)
           /\ roots' = (IF top = 0 THEN Append(roots, id) ELSE roots)
           /\ \A n \in DOMAIN nodes :
                nodes'[n] = (IF n = top
                             THEN [nodes[n] EXCEPT !.children = Append(@, id)]
                             ELSE nodes[n])
    ]_vars

\* a step opened again while it is open: a second node of the same name,
\* appended after the child its parent already had
C14_Witness ==
  /\ pc = "parse" /\ Len(log) = 4
  /\ IsStart(1) /\ IsStart(2) /\ IsClose(3) /\ IsStart(4)
  /\ stack = <<1, 4>>
  /\ nodes[1].name = nodes[4].name
  /\ nodes[1].children = <<2, 4>>
  /\ nodes[1].stop = None /\ nodes[4].stop = None

\* C15: in every step of build_step_tree, the event pass and the forced
\* closure alike, every node that exists keeps its start, and a node that
\* has a stop keeps its stop and its status.
C15_StartAndStopAreFinal ==
  [][ (pc = "parse" \/ pc = "close") =>
        \A n \in DOMAIN nodes :
          /\ n \in DOMAIN nodes'
          /\ nodes'[n].start = nodes[n].start
          /\ nodes[n].stop # None =>
                (nodes'[n].stop = nodes[n].stop /\ nodes'[n].status = nodes[n].status)
    ]_vars

\* a step closed by its COMPLETED line and an unmatched close, both intact
\* after the forced closure of the step that was left open
C15_Witness ==
  /\ pc = "built" /\ Len(log) = 4
  /\ IsStart(1) /\ IsStart(2) /\ IsClose(3) /\ IsClose(4)
  /\ nodes[1].status = "failed" /\ nodes[1].stop = nodes[1].start
  /\ nodes[2].status = "passed" /\ nodes[2].stop = EvTs(3) /\ nodes[2].stop > nodes[2].start
  /\ 4 \in DOMAIN nodes /\ nodes[4].stop = EvTs(4) /\ nodes[4].start = EvTs(4)

\* the lists of the forest, named by their owner: 0 stands for roots
ListOf(m) == IF m = 0 THEN roots ELSE nodes[m].children

\* the owners of the lists a node stands in
Holders(n) == {m \in DOMAIN nodes \cup {0} : n \in Range(ListOf(m))}

NoRepeat(q) == Cardinality(Range(q)) = Len(q)

\* C16: while build_step_tree runs and in the forest it returns, every node
\* stands in exactly one list of the forest, roots or the children of one
\* node, and once in it; every member of a list is a node, every node is
\* reached from roots, and no node is below itself.
C16_EachNodeOnce ==
  pc \in {"parse", "close", "built"} =>
    /\ \A n \in DOMAIN nodes :
         /\ Cardinality(Holders(n)) = 1
         /\ NoRepeat(nodes[n].children)
         /\ Range(nodes[n].children) \subseteq DOMAIN nodes
         /\ n \notin Below(nodes[n].children, Cardinality(DOMAIN nodes) + 1)
    /\ NoRepeat(roots)
    /\ Range(roots) \subseteq DOMAIN nodes
    /\ ForestNodes = DOMAIN nodes

\* a returned forest of two roots, the first with a child, the second made
\* for an unmatched close read while the first was open
C16_Witness ==
  /\ pc = "built"
  /\ roots = <<1, 4>>
  /\ nodes[1].children = <<2>>
  /\ DOMAIN nodes = {1, 2, 4}
  /\ nodes[1].status = "failed"

\* the base the time-base rule prescribes
BaseRule(anchor, first, last, now) ==
  IF anchor # None /\ first # None THEN anchor - first
  ELSE LET duration == IF first = None \/ last = None THEN 0 ELSE last - first
       IN IF duration > 0 THEN now - duration ELSE now

\* present and absent values of first_timestamp and last_timestamp
BaseArgs == {None, 0, 1000, 62500}

\* base_epoch follows the rule on every combination of the arguments
BaseFollowsRule ==
  \A a \in Anchors, f \in BaseArgs, l \in BaseArgs, now \in Nows :
    base_epoch(a, f, l, now) = BaseRule(a, f, l, now)

\* C17: result_from_tree has a base_epoch for every call, and for every
\* combination of present and absent anchor, first_timestamp and
\* last_timestamp the base is the one of the rule: anchor - first when both
\* are present, else now - max(0, last - first), the duration being 0 when
\* first or last is absent.
C17_BaseAlwaysResolved ==
  pc = "written" =>
    /\ call.base_epoch_ms \in Int
    /\ call.base_epoch_ms = BaseRule(call.anchor, first_ts, last_ts, call.now_ms)
    /\ (call.anchor = None \/ first_ts = None) =>
          /\ call.base_epoch_ms <= call.now_ms
          /\ call.base_epoch_ms = call.now_ms \/ call.base_epoch_ms = call.now_ms - (last_ts - first_ts)
    /\ BaseFollowsRule

\* a call without anchor for a log whose last close is later than its first
\* event: the base is now less the duration
C17_Witness ==
  /\ pc = "written"
  /\ call.anchor = None
  /\ first_ts # None /\ last_ts > first_ts
  /\ call.base_epoch_ms = call.now_ms - (last_ts - first_ts)
  /\ call.base_epoch_ms < call.now_ms

\* the times of the event lines read never go down
NonDecreasing == \A i, j \in 1..Len(log) : i <= j => EvTs(i) <= EvTs(j)

\* C18: for a log whose event times never go down, the record written
\* starts no later than every step of it starts and stops no earlier than
\* every step of it stops, with an anchor and without.
C18_WindowEnclosesSteps ==
  (pc = "written" /\ NonDecreasing) =>
    \A n \in ForestNodes :
      /\ result[1].start <= result[1].steps[n].start
      /\ result[1].stop >= result[1].steps[n].stop

\* the nodes below a node
Descendants(n) == Below(nodes[n].children, Cardinality(DOMAIN nodes) + 1)

\* C19: at every point of the event pass the stack holds exactly the nodes
\* of the RUNNING lines that no close has matched yet, in the order they
\* were opened; each of them has no stop and is in the forest, and each is
\* below every node that is under it on the stack.
C19_StackIsOpenChain ==
  pc = "parse" =>
    /\ stack = SortedSeq(OpenAfter(Len(log)))
    /\ \A i \in 1..Len(stack) :
         /\ stack[i] \in Starts
         /\ nodes[stack[i]].stop = None
         /\ stack[i] \in ForestNodes
         /\ \A j \in 1..Len(stack) : i < j => stack[j] \in Descendants(stack[i])
    /\ \A n \in DOMAIN nodes \ Range(stack) : nodes[n].stop # None

\* a node closed from the middle of the stack: the node above it stays on
\* the stack, a grandchild of the node under it
C19_Witness ==
  /\ pc = "parse"
  /\ stack = <<1, 3>>
  /\ nodes[1].children = <<2>> /\ nodes[2].children = <<3>>
  /\ nodes[2].stop # None
  /\ 3 \notin Range(nodes[1].children)

\* C20 as stated: for a log whose event times never go down, every node of
\* the returned forest has start <= stop, and every child starts no earlier
\* and stops no later than its parent.
C20_IntervalsNested ==
  (Returned /\ NonDecreasing) =>
    \A n \in ForestNodes :
      /\ nodes[n].start <= nodes[n].stop
      /\ \A c \in Range(nodes[n].children) :
            (nodes[n].start <= nodes[c].start /\ nodes[c].stop <= nodes[n].stop)

\* C20, amended: for a log whose event times never go down, every node of
\* the returned forest has start <= stop and every child starts no earlier
\* than its parent; a child stops no later than its parent when the log is
\* well formed, that is, when each close closes the innermost open step and
\* no step is left open at the end.
C20_IntervalsNestedIfWellFormed ==
  (Returned /\ NonDecreasing) =>
    /\ \A n \in ForestNodes :
         /\ nodes[n].start <= nodes[n].stop
         /\ \A c \in Range(nodes[n].children) : nodes[n].start <= nodes[c].start
    /\ WellFormed =>
         \A n \in ForestNodes :
           \A c \in Range(nodes[n].children) : nodes[c].stop <= nodes[n].stop

\* a well-formed log of a step and a later child, closed inside out
C20_Witness ==
  /\ Returned /\ NonDecreasing /\ WellFormed
  /\ Len(log) = 4
  /\ nodes[1].children = <<2>>
  /\ nodes[1].start < nodes[2].start
  /\ nodes[2].stop <= nodes[1].stop
  /\ nodes[1].start < nodes[1].stop

\* C21: in every step of build_step_tree a children list changes only by
\* the append of the node just created, and only the list of the node on
\* top of the stack, which has no stop; the list of a node that has a stop
\* stays as it is, and a node made for an unmatched close has no children.
C21_ChildrenOnlyUnderOpen ==
  [][ (pc = "parse" \/ pc = "close") =>
        /\ \A n \in DOMAIN nodes :
             /\ n \in DOMAIN nodes'
             /\ nodes[n].stop # None => nodes'[n].children = nodes[n].children
             /\ nodes'[n].children # nodes[n].children =>
                   (/\ stack # <<>> /\ n = stack[Len(stack)]
                    /\ nodes[n].stop = None
                    /\ nodes'[n].children = Append(nodes[n].children, Len(log'))
                    /\ Len(log') = Len(log) + 1
                    /\ log'[Len(log')].state = "RUNNING")
        /\ \A n \in DOMAIN nodes' :
             log'[n].state # "RUNNING" => nodes'[n].children = <<>>
    ]_vars

\* a step closed while its child was open: the next step went under the
\* child, and the closed step kept the one child it had
C21_Witness ==
  /\ pc = "parse" /\ Len(log) = 4
  /\ IsStart(1) /\ IsStart(2) /\ IsClose(3) /\ IsStart(4)
  /\ nodes[1].stop # None
  /\ nodes[1].children = <<2>>
  /\ nodes[2].stop = None
  /\ nodes[2].children = <<4>>
  /\ stack = <<2, 4>>
====
